---- MODULE Spec2Model ----
(***************************************************************************)
(* Verification model of the OPIC automatic grader's assessment pipeline:  *)
(* the model registry (models/ml_models.py), the scoring stage             *)
(* (services/scoring_service.py), the feedback stage                       *)
(* (services/feedback_service.py), the dispatch of inference to executors  *)
(* (services/*.py), startup (main.py) and the Flask app's transcription    *)
(* queue (app.py).                                                         *)
(***************************************************************************)
EXTENDS Integers, Sequences, FiniteSets, TLC

\* ------------------------------------------------------------------------
\* Bounds of the model
\* ------------------------------------------------------------------------
NThreads == 2
MaxConstruct == 2
MaxCalls == 3
MaxCleanups == 1
MaxQuestions == 2
MaxScores == 2
NSessions == 2
MaxPage == 2
MaxQueue == 2
MaxConsumers == 2
MaxServices == 2
MaxJobs == 3
NClients == 2
NStudents == 2
MaxWrites == 3

Threads == 1..NThreads

\* ------------------------------------------------------------------------
\* State
\* ------------------------------------------------------------------------
VARIABLES
    instances,   \* ModelFactory._instances: registry key -> handle id (NoHandle = key absent)
    handles,     \* every manager object constructed so far, indexed by identity
    constructed, \* per registry key: managers constructed since the registry was last cleared
    pc,          \* per thread: position inside get_*_model
    trole,       \* per thread: registry key of the get in progress
    tret,        \* per thread: handle returned by its last completed get
    tstale,      \* per thread: a cleanup ran since its get started
    nconstruct,  \* managers constructed by the threads' get calls so far
    cleanups,    \* number of cleanup calls so far
    ncalls,      \* number of inference-side calls (load guard, predict) services made so far
    app,         \* main.py lifespan: "off", "serving", "failed", "aborted" or "stopped"
    lastOp,      \* the operation that produced the current state, with its outcome
    sc,          \* ScoringService: the last score_single_answer call and its result
    gr,          \* ScoringService: the last calculate_final_grade calls and their results
    ifb,         \* FeedbackService: the last generate_individual_feedback call and its result
    ofb,         \* FeedbackService: the last generate_overall_feedback call and its result
    batch,       \* FeedbackService: the generate_batch_feedback call in progress
    multi,       \* ScoringService: the last score_multiple_answers call and its result
    jobs,        \* the work items the services handed to their executors
    fl,          \* app.py: the module globals, the sessions and the consumer threads
    db,          \* the answer and grade tables and the repository calls in progress
    cf,          \* FeedbackService: the last _clean_feedback call and its result
    fbk          \* FeedbackService: the _get_fallback_feedback calls on one input

regVars == <<instances, handles, constructed, pc, trole, tret, tstale,
             nconstruct, app, cleanups, ncalls, lastOp>>
stageVars == <<sc, gr, ifb, ofb>>
pipeVars == <<batch, multi, jobs, fl>>
extraVars == <<db, cf, fbk>>
vars == <<regVars, stageVars, pipeVars, extraVars>>

\* ------------------------------------------------------------------------
\* Model managers (ml_models.py)
\* ------------------------------------------------------------------------
Roles == {"whisper", "roberta_task_completion", "roberta_accuracy",
          "roberta_appropriateness", "llama"}

\* load_all_models loads in this order
LoadOrder == <<"whisper", "roberta_task_completion", "roberta_accuracy",
               "roberta_appropriateness", "llama">>

Kind(r) == IF r = "whisper" THEN "whisper"
           ELSE IF r = "llama" THEN "llama" ELSE "roberta"

NoHandle == 0

\* ModelManager.__init__ (+ subclass __init__): every attribute is None.
\* An attribute is "None", "Set" (holds the artifact) or "Deleted" (removed
\* by del, any read raises AttributeError).  loads is a ghost counter: the
\* number of artifact loads predict() performed on this handle since the
\* registry was last cleared.
NewManager(r) ==
    [role |-> r, model |-> "None", tokenizer |-> "None",
     processor |-> "None", pipeline |-> "None", loads |-> 0]

\* ModelManager.is_loaded: return self._model is not None
is_loaded_raises(h) == h.model = "Deleted"
is_loaded(h) == h.model # "None"

\* WhisperModelManager.load_model: _model, then _processor, then _pipeline;
\* an exception at any of the three leaves the earlier assignments in place.
WhisperLoad(h) ==
    { [h |-> h, raised |-> TRUE, loaded |-> FALSE],
      [h |-> [h EXCEPT !.model = "Set"], raised |-> TRUE, loaded |-> FALSE],
      [h |-> [h EXCEPT !.model = "Set", !.processor = "Set"],
       raised |-> TRUE, loaded |-> FALSE],
      [h |-> [h EXCEPT !.model = "Set", !.processor = "Set", !.pipeline = "Set"],
       raised |-> FALSE, loaded |-> TRUE] }

\* RobertaScoringModelManager.load_model: returns silently when the model
\* path does not exist; otherwise _model, then _tokenizer, then to()/eval().
RobertaLoad(h) ==
    { [h |-> h, raised |-> FALSE, loaded |-> FALSE],
      [h |-> h, raised |-> TRUE, loaded |-> FALSE],
      [h |-> [h EXCEPT !.model = "Set"], raised |-> TRUE, loaded |-> FALSE],
      [h |-> [h EXCEPT !.model = "Set", !.tokenizer = "Set"],
       raised |-> TRUE, loaded |-> FALSE],
      [h |-> [h EXCEPT !.model = "Set", !.tokenizer = "Set"],
       raised |-> FALSE, loaded |-> TRUE] }

\* LlamaFeedbackModelManager.load_model: hub login, then _pipeline; _model
\* is never assigned.
LlamaLoad(h) ==
    { [h |-> h, raised |-> TRUE, loaded |-> FALSE],
      [h |-> [h EXCEPT !.pipeline = "Set"], raised |-> FALSE, loaded |-> TRUE] }

\* load_model of the handle's class: the set of possible outcomes
load_model(h) ==
    IF Kind(h.role) = "whisper" THEN WhisperLoad(h)
    ELSE IF Kind(h.role) = "roberta" THEN RobertaLoad(h)
    ELSE LlamaLoad(h)

\* The inference part of predict (after the lazy load): can this handle run
\* inference at all?  Whisper and LLaMA call self._pipeline, RoBERTa calls
\* self._tokenizer and then self._model.
CanInfer(h) ==
    IF Kind(h.role) = "roberta"
    THEN h.tokenizer = "Set" /\ h.model = "Set"
    ELSE h.pipeline = "Set"

\* predict of the handle's class: lazy load when is_loaded() is false, then
\* inference.  Outcomes: [h, raised]; inference itself may raise.
predict(h) ==
    IF is_loaded_raises(h)
    THEN { [h |-> h, raised |-> TRUE] }
    ELSE LET afterLoad ==
                 IF is_loaded(h)
                 THEN { [h |-> h, raised |-> FALSE, loaded |-> FALSE] }
                 ELSE load_model(h)
             Infer(o) ==
                 LET g == IF o.loaded THEN [o.h EXCEPT !.loads = @ + 1] ELSE o.h
                 IN  IF o.raised \/ ~CanInfer(g)
                     THEN { [h |-> g, raised |-> TRUE] }
                     ELSE { [h |-> g, raised |-> FALSE], [h |-> g, raised |-> TRUE] }
         IN  UNION { Infer(o) : o \in afterLoad }

\* ------------------------------------------------------------------------
\* ModelFactory (ml_models.py)
\* ------------------------------------------------------------------------
Op(name, h, raised) == [op |-> name, h |-> h, raised |-> raised]

RegInit ==
    /\ instances = [r \in Roles |-> NoHandle]
    /\ handles = << >>
    /\ constructed = [r \in Roles |-> 0]
    /\ pc = [t \in Threads |-> "idle"]
    /\ trole = [t \in Threads |-> "whisper"]
    /\ tret = [t \in Threads |-> NoHandle]
    /\ tstale = [t \in Threads |-> FALSE]
    /\ nconstruct = 0
    /\ app = "off"
    /\ cleanups = 0
    /\ ncalls = 0
    /\ lastOp = Op("init", NoHandle, FALSE)

\* No call of a stage has been made
Idle == [status |-> "none"]

\* app.py module globals right after import: an empty task_queue and a
\* transcript_list holding 'Hello' under every key of range(1, 16)
NumQuestions == 15
\* a text of transcript_list: the recording it was transcribed from, as
\* [src, q] (whose upload, of which question); the placeholder has neither
Hello == [src |-> 0, q |-> 0]
\* the browser sessions of the Flask app
Sessions == 1..NSessions

\* records: the session whose upload records/record{q}.wav holds (0: no such
\* file); page: session['question_page_number'] (0: not set); consumer: the
\* backgroundTask threads started so far; seen: what get_transcriptListLength
\* last told the session; graded: the transcripts /grading scored for it
FlaskStart ==
    [task_queue |-> << >>,
     transcript_list |-> [q \in 1..NumQuestions |-> Hello],
     records |-> [q \in 1..NumQuestions |-> 0],
     page |-> [s \in Sessions |-> 0],
     consumer |-> << >>,
     seen |-> [s \in Sessions |-> 0],
     graded |-> [s \in Sessions |-> << >>]]

\* the database sessions (one per request, config/database.py get_db)
Clients == 1..NClients

\* empty answer and grade tables, no repository call in progress
DbStart ==
    [answers |-> << >>, grades |-> << >>,
     client |-> [w \in Clients |-> [pc |-> "idle"]],
     writes |-> 0]

ExtraIdle ==
    /\ db = DbStart /\ cf = Idle /\ fbk = Idle

PipeIdle ==
    /\ batch = Idle /\ multi = Idle /\ jobs = << >> /\ fl = FlaskStart
    /\ ExtraIdle

Init ==
    /\ RegInit
    /\ sc = Idle /\ gr = Idle /\ ifb = Idle /\ ofb = Idle
    /\ PipeIdle

\* The handles some service object still references: a service keeps the
\* handle its constructor obtained (AudioService.whisper_model,
\* ScoringService.*_model, FeedbackService.llama_model).
held == { tret[t] : t \in Threads } \ {NoHandle}

\* Requests are served (and services used as a library) unless startup failed
Running == app \notin {"failed", "aborted"}

\* get_whisper_model / get_roberta_model / get_llama_model, first statement:
\* `if key not in cls._instances`.  No lock is held, so other threads run
\* between this test and the statements that follow it.
GetCheck(t, r) ==
    /\ Running
    /\ pc[t] \in {"idle", "done"}
    /\ trole' = [trole EXCEPT ![t] = r]
    /\ tret' = [tret EXCEPT ![t] = NoHandle]
    /\ tstale' = [tstale EXCEPT ![t] = FALSE]
    /\ pc' = [pc EXCEPT ![t] = IF instances[r] = NoHandle THEN "construct" ELSE "return"]
    /\ lastOp' = Op("get_check", NoHandle, FALSE)
    /\ UNCHANGED <<instances, handles, constructed, nconstruct, app, cleanups, ncalls>>
    /\ UNCHANGED <<stageVars, pipeVars, extraVars>>

\* `cls._instances[key] = Manager(...)`: construct a manager and store it
GetConstruct(t) ==
    /\ pc[t] = "construct"
    /\ nconstruct < MaxConstruct
    /\ handles' = Append(handles, NewManager(trole[t]))
    /\ instances' = [instances EXCEPT ![trole[t]] = Len(handles) + 1]
    /\ constructed' = [constructed EXCEPT ![trole[t]] = @ + 1]
    /\ nconstruct' = nconstruct + 1
    /\ pc' = [pc EXCEPT ![t] = "return"]
    /\ lastOp' = Op("get_construct", Len(handles) + 1, FALSE)
    /\ UNCHANGED <<trole, tret, tstale, app, cleanups, ncalls>>
    /\ UNCHANGED <<stageVars, pipeVars, extraVars>>

\* `return cls._instances[key]`: KeyError when the key is gone again
GetReturn(t) ==
    /\ pc[t] = "return"
    /\ IF instances[trole[t]] = NoHandle
       THEN /\ pc' = [pc EXCEPT ![t] = "idle"]
            /\ lastOp' = Op("get_return", NoHandle, TRUE)
            /\ UNCHANGED tret
       ELSE /\ pc' = [pc EXCEPT ![t] = "done"]
            /\ tret' = [tret EXCEPT ![t] = instances[trole[t]]]
            /\ lastOp' = Op("get_return", instances[trole[t]], FALSE)
    /\ UNCHANGED <<instances, handles, constructed, trole, tstale,
                   nconstruct, app, cleanups, ncalls>>
    /\ UNCHANGED <<stageVars, pipeVars, extraVars>>

\* ModelFactory.cleanup: for every registered instance `del _model` and
\* `del _tokenizer` when they are not None, then clear the registry.
CleanedUp(h) ==
    [h EXCEPT !.model = IF @ = "Set" THEN "Deleted" ELSE @,
              !.tokenizer = IF @ = "Set" THEN "Deleted" ELSE @]

Registered == { instances[r] : r \in Roles } \ {NoHandle}

\* cleanup is called by the lifespan's finally block (after a failed startup
\* and at shutdown); it is a classmethod any caller can invoke as well.
Cleanup ==
    /\ cleanups < MaxCleanups
    /\ cleanups' = cleanups + 1
    /\ handles' = [i \in DOMAIN handles |->
                     [(IF i \in Registered THEN CleanedUp(handles[i]) ELSE handles[i])
                        EXCEPT !.loads = 0]]
    /\ instances' = [r \in Roles |-> NoHandle]
    /\ constructed' = [r \in Roles |-> 0]
    /\ tstale' = [t \in Threads |-> pc[t] # "idle"]
    /\ app' = CASE app = "serving" -> "stopped"
                [] app = "failed" -> "aborted"
                [] OTHER -> app
    /\ lastOp' = Op("cleanup", NoHandle, FALSE)
    /\ UNCHANGED <<pc, trole, tret, nconstruct, ncalls>>
    /\ UNCHANGED <<stageVars, pipeVars, extraVars>>

\* Concurrent use of the registry: threads inside get_*_model, and cleanup
Next ==
    \/ \E t \in Threads, r \in Roles : GetCheck(t, r)
    \/ \E t \in Threads : GetConstruct(t)
    \/ \E t \in Threads : GetReturn(t)
    \/ Cleanup

Spec == Init /\ [][Next]_vars

\* ------------------------------------------------------------------------
\* Model lifecycle: startup load, lazy load on use, cleanup
\* ------------------------------------------------------------------------

\* The lifecycle specification follows one service thread: interleaving
\* inside get_*_model is the subject of Spec above.
Service == CHOOSE t \in Threads : TRUE

\* A whole get_*_model call by a caller that no other thread interleaves
\* with (a service constructor): test, construct and store, return.
Get_fresh(t, r) ==
    /\ Running
    /\ pc[t] \in {"idle", "done"}
    /\ nconstruct < MaxConstruct
    /\ handles' = Append(handles, NewManager(r))
    /\ instances' = [instances EXCEPT ![r] = Len(handles) + 1]
    /\ constructed' = [constructed EXCEPT ![r] = @ + 1]
    /\ nconstruct' = nconstruct + 1
    /\ tret' = [tret EXCEPT ![t] = Len(handles) + 1]
    /\ lastOp' = Op("get", Len(handles) + 1, FALSE)
    /\ trole' = [trole EXCEPT ![t] = r]
    /\ tstale' = [tstale EXCEPT ![t] = FALSE]
    /\ pc' = [pc EXCEPT ![t] = "done"]
    /\ UNCHANGED <<app, cleanups, ncalls>>
    /\ UNCHANGED <<stageVars, pipeVars, extraVars>>

Get(t, r) ==
    /\ Running
    /\ pc[t] \in {"idle", "done"}
    /\ LET absent == instances[r] = NoHandle
           i == IF absent THEN Len(handles) + 1 ELSE instances[r]
       IN  /\ absent => nconstruct < MaxConstruct
           /\ handles' = IF absent THEN Append(handles, NewManager(r)) ELSE handles
           /\ instances' = [instances EXCEPT ![r] = i]
           /\ constructed' = IF absent THEN [constructed EXCEPT ![r] = @ + 1]
                             ELSE constructed
           /\ nconstruct' = IF absent THEN nconstruct + 1 ELSE nconstruct
           /\ tret' = [tret EXCEPT ![t] = i]
           /\ lastOp' = Op("get", i, FALSE)
    /\ trole' = [trole EXCEPT ![t] = r]
    /\ tstale' = [tstale EXCEPT ![t] = FALSE]
    /\ pc' = [pc EXCEPT ![t] = "done"]
    /\ UNCHANGED <<app, cleanups, ncalls>>
    /\ UNCHANGED <<stageVars, pipeVars, extraVars>>

\* A service's guard before inference (_transcribe_sync, _score_*,
\* _generate_feedback_sync): `if not m.is_loaded(): m.load_model()`
EnsureLoaded(t) ==
    /\ pc[t] = "done"
    /\ ncalls < MaxCalls
    /\ LET i == tret[t]
           h == handles[i]
       IN  IF is_loaded_raises(h)
           THEN /\ lastOp' = Op("ensure_loaded", i, TRUE)
                /\ UNCHANGED handles
           ELSE /\ ~is_loaded(h)
                /\ \E o \in load_model(h) :
                     /\ handles' = [handles EXCEPT ![i] = o.h]
                     /\ lastOp' = Op("ensure_loaded", i, o.raised)
    /\ ncalls' = ncalls + 1
    /\ UNCHANGED <<instances, constructed, pc, trole, tret, tstale,
                   nconstruct, app, cleanups>>
    /\ UNCHANGED <<stageVars, pipeVars, extraVars>>

\* m.predict(...) through a handle a service holds
Predict(t) ==
    /\ pc[t] = "done"
    /\ LET i == tret[t]
       IN  /\ ncalls < MaxCalls
           /\ \E o \in predict(handles[i]) :
                /\ handles' = [handles EXCEPT ![i] = o.h]
                /\ lastOp' = Op("predict", i, o.raised)
    /\ ncalls' = ncalls + 1
    /\ UNCHANGED <<instances, constructed, pc, trole, tret, tstale,
                   nconstruct, app, cleanups>>
    /\ UNCHANGED <<stageVars, pipeVars, extraVars>>

\* ModelFactory.load_all_models from position k of LoadOrder on: get the
\* role's handle (constructing it when the key is absent), call load_model
\* on it unconditionally, stop at the first exception.  The result is the
\* set of possible [instances, handles, constructed, raised, failed], failed
\* being the handle whose load_model raised.
RECURSIVE LoadFrom(_, _, _, _)
LoadFrom(k, inst, hs, cons) ==
    IF k > Len(LoadOrder)
    THEN { [instances |-> inst, handles |-> hs, constructed |-> cons, raised |-> FALSE,
            failed |-> NoHandle] }
    ELSE LET r == LoadOrder[k]
             absent == inst[r] = NoHandle
             i == IF absent THEN Len(hs) + 1 ELSE inst[r]
             inst1 == [inst EXCEPT ![r] = i]
             hs1 == IF absent THEN Append(hs, NewManager(r)) ELSE hs
             cons1 == IF absent THEN [cons EXCEPT ![r] = @ + 1] ELSE cons
             After(o) ==
                 LET hs2 == [hs1 EXCEPT ![i] = o.h]
                 IN  IF o.raised
                     THEN { [instances |-> inst1, handles |-> hs2,
                             constructed |-> cons1, raised |-> TRUE, failed |-> i] }
                     ELSE LoadFrom(k + 1, inst1, hs2, cons1)
         IN  UNION { After(o) : o \in load_model(hs1[i]) }

\* the except clause of load_all_models logs and re-raises; it undoes nothing
load_all_models_rollback ==
    { IF o.raised THEN [o EXCEPT !.instances = instances] ELSE o :
        o \in LoadFrom(1, instances, handles, constructed) }

load_all_models == LoadFrom(1, instances, handles, constructed)

\* lifespan startup: await asyncio.to_thread(ModelFactory.load_all_models),
\* the first thing the process does with the registry; an exception makes
\* the lifespan re-raise (startup fails), otherwise the app starts serving.
LoadAllModels ==
    /\ app = "off"
    /\ handles = << >>
    /\ \E o \in load_all_models :
         /\ instances' = o.instances
         /\ handles' = o.handles
         /\ constructed' = o.constructed
         /\ app' = IF o.raised THEN "failed" ELSE "serving"
         /\ lastOp' = Op("load_all_models", o.failed, o.raised)
    /\ UNCHANGED <<pc, trole, tret, tstale, nconstruct, cleanups, ncalls>>
    /\ UNCHANGED <<stageVars, pipeVars, extraVars>>

LifeNext ==
    \/ \E r \in Roles : Get(Service, r)
    \/ EnsureLoaded(Service)
    \/ Predict(Service)
    \/ LoadAllModels
    \/ Cleanup

LifeSpec == Init /\ [][LifeNext]_vars

\* ------------------------------------------------------------------------
\* Properties of the registry and the model lifecycle
\* ------------------------------------------------------------------------

\* C1: concurrent get calls on a registry without an entry for the role
\* construct exactly one manager for it, and all callers whose get completed
\* (with no cleanup since they started) hold the same instance.
C1_ConstructOnce ==
    /\ \A r \in Roles : constructed[r] <= 1
    /\ \A t1, t2 \in Threads :
         ( /\ pc[t1] = "done" /\ pc[t2] = "done"
           /\ trole[t1] = trole[t2]
           /\ ~tstale[t1] /\ ~tstale[t2] )
         => tret[t1] = tret[t2]

\* C2: when load_all_models returns without raising, every role is registered
\* and its handle reports is_loaded().
C2_LoadAllLoadsEveryRole ==
    (lastOp.op = "load_all_models" /\ ~lastOp.raised)
    => \A r \in Roles :
         /\ instances[r] # NoHandle
         /\ ~is_loaded_raises(handles[instances[r]])
         /\ is_loaded(handles[instances[r]])

\* C3: with no cleanup in between, the predict calls on a handle load its
\* artifact at most once.
C3_PredictLoadsAtMostOnce ==
    \A i \in DOMAIN handles : handles[i].loads <= 1

\* C4: after cleanup the registry is empty, no handle a service still holds
\* keeps a model, tokenizer or pipeline, and a get that follows constructs a
\* new, unloaded handle.
Released(h) == h.model # "Set" /\ h.tokenizer # "Set" /\ h.pipeline # "Set"

C4_CleanupReleasesEverything ==
    [][ /\ lastOp'.op = "cleanup"
           => /\ Registered' = {}
              /\ \A i \in held' : Released(handles'[i])
        /\ (lastOp.op = "cleanup" /\ lastOp'.op = "get")
           => /\ lastOp'.h = Len(handles) + 1
              /\ handles'[lastOp'.h] = NewManager(handles'[lastOp'.h].role) ]_vars

\* ------------------------------------------------------------------------
\* Scoring stage (scoring_service.py).  Scores are counted in thousandths of
\* a point: 5.0 is 5000, the range [0, 10] is 0..10000.
\* ------------------------------------------------------------------------
Criteria == {"task_completion", "accuracy", "appropriateness"}

\* classifier outputs (outputs.logits.squeeze().item()) the model draws from
RawOutputs == {-1500, 0, 4, 5996, 7123, 10000, 12000}

Min2(a, b) == IF a < b THEN a ELSE b
Max2(a, b) == IF a > b THEN a ELSE b

\* RobertaScoringModelManager.predict: score = max(0, min(10, score))
PredictClamp(score) == Max2(0, Min2(10000, score))

\* _score_*: return max(0.0, min(10.0, score))
ScoreClamp(score) == Max2(0, Min2(10000, score))

\* _score_*: the except branch returns the default score 5.0
DefaultScore == 5000

\* _score_task_completion / _score_accuracy / _score_appropriateness: raises
\* says that is_loaded, load_model or predict raised inside the try block.
ScoreCriterion_zero(raises, raw) ==
    IF raises THEN 0 ELSE ScoreClamp(PredictClamp(raw))

ScoreCriterion(raises, raw) ==
    IF raises THEN DefaultScore ELSE ScoreClamp(PredictClamp(raw))

\* round(x, 2): the nearest hundredth.  A decimal tie (x.xx5) is decided by
\* the binary value of the float, which lies on either side, so both
\* neighbours are possible results.
Round2_trunc(v) == { (v \div 10) * 10 }

Round2(v) ==
    LET lo == (v \div 10) * 10
        rem == v % 10
    IN  IF rem < 5 THEN {lo}
        ELSE IF rem > 5 THEN {lo + 10}
        ELSE {lo, lo + 10}

\* ScoreBreakdown field constraints: ge=0, le=10 for the criteria, le=30 for
\* the total; a violation makes the constructor raise
ValidBreakdown(b) ==
    /\ \A c \in Criteria : 0 <= b[c] /\ b[c] <= 10000
    /\ 0 <= b.total /\ b.total <= 30000

\* score_single_answer: the three _score_* results are gathered, summed,
\* each value and the sum rounded to two decimals and stored in a
\* ScoreBreakdown; any exception is logged and re-raised.
ScoreSingleAnswer ==
    /\ sc.status = "called"
    /\ LET raw == sc.raw
           fails == sc.fails
       IN
         LET scores == [c \in Criteria |-> ScoreCriterion(fails[c], raw[c])]
             total == scores["task_completion"] + scores["accuracy"]
                        + scores["appropriateness"]
         IN  \E tc \in Round2(scores["task_completion"]),
                ac \in Round2(scores["accuracy"]),
                ap \in Round2(scores["appropriateness"]),
                tt \in Round2(total) :
                  LET b == [task_completion |-> tc, accuracy |-> ac,
                            appropriateness |-> ap, total |-> tt]
                  IN  sc' = [status |-> IF ValidBreakdown(b) THEN "returned" ELSE "raised",
                             raw |-> raw, fails |-> fails, scores |-> scores,
                             total |-> total, breakdown |-> b]
    /\ UNCHANGED <<extraVars, pipeVars, regVars, gr, ifb, ofb>>

ScoreNext == ScoreSingleAnswer

\* One score_single_answer call for every combination of classifier
\* outputs and classifier failures
ScoreInit ==
    /\ RegInit
    /\ sc \in { [status |-> "called", raw |-> raw, fails |-> fails] :
                   raw \in [Criteria -> RawOutputs], fails \in [Criteria -> BOOLEAN] }
    /\ gr = Idle /\ ifb = Idle /\ ofb = Idle
    /\ PipeIdle

ScoreSpec == ScoreInit /\ [][ScoreNext]_vars

\* clamping of a raw output into [0, 10], stated independently of the code
InRange(r) == IF r < 0 THEN 0 ELSE IF r > 10000 THEN 10000 ELSE r

\* v is a hundredth nearest to x
NearestHundredth(v, x) == v % 10 = 0 /\ v - x <= 5 /\ x - v <= 5

\* C5: when the classifier call of a criterion raises, score_single_answer
\* still returns; that criterion scores exactly 5.0, every other criterion
\* keeps the clamped score of its own classifier (stored to two decimals),
\* and the total is the sum including the substituted 5.0.
C5_FailedCriterionGetsDefault ==
    (sc.status # "called" /\ \E c \in Criteria : sc.fails[c])
    => /\ sc.status = "returned"
       /\ \A c \in Criteria :
            IF sc.fails[c]
            THEN sc.scores[c] = 5000 /\ sc.breakdown[c] = 5000
            ELSE /\ sc.scores[c] = InRange(sc.raw[c])
                 /\ NearestHundredth(sc.breakdown[c], InRange(sc.raw[c]))
       /\ sc.total = sc.scores["task_completion"] + sc.scores["accuracy"]
                       + sc.scores["appropriateness"]
       /\ NearestHundredth(sc.breakdown.total, sc.total)

\* C5 witness: only the accuracy classifier raised, the other two produced
\* an in-range and an out-of-range output, and the call returned
C5_Witness ==
    /\ sc.status = "returned"
    /\ sc.fails = [c \in Criteria |-> c = "accuracy"]
    /\ sc.raw["task_completion"] = 7123
    /\ sc.raw["appropriateness"] = 12000
    /\ sc.breakdown = [task_completion |-> 7120, accuracy |-> 5000,
                       appropriateness |-> 10000, total |-> 22120]

\* C6: the stored total equals the sum of the three stored criterion scores
C6_TotalIsSumOfStored ==
    sc.status = "returned"
    => sc.breakdown.total = sc.breakdown["task_completion"]
                              + sc.breakdown["accuracy"]
                              + sc.breakdown["appropriateness"]

\* C7 as claimed: the stored criterion score equals the raw output whenever
\* the raw output lies in [0, 10], 0 below and 10 above.
C7_StoredEqualsClampedRaw ==
    sc.status = "returned"
    => \A c \in Criteria :
         ~sc.fails[c] => sc.breakdown[c] = InRange(sc.raw[c])

\* C7 amended: the stored criterion score lies in [0, 10] and is the raw
\* output clamped into [0, 10] and rounded to two decimals.
C7_StoredIsRoundedClampedRaw ==
    sc.status # "called"
    => /\ sc.status = "returned"
       /\ \A c \in Criteria :
            /\ 0 <= sc.breakdown[c] /\ sc.breakdown[c] <= 10000
            /\ ~sc.fails[c] =>
                 NearestHundredth(sc.breakdown[c], InRange(sc.raw[c]))

\* C7 witness: outputs below, inside (with a third decimal) and above the
\* range were stored
C7_Witness ==
    /\ sc.status = "returned"
    /\ sc.fails = [c \in Criteria |-> FALSE]
    /\ sc.raw = [task_completion |-> -1500, accuracy |-> 7123,
                 appropriateness |-> 12000]
    /\ sc.breakdown["task_completion"] = 0
    /\ sc.breakdown["accuracy"] = 7120
    /\ sc.breakdown["appropriateness"] = 10000

\* ------------------------------------------------------------------------
\* Grading (scoring_service.py).  Totals are counted in tenths of a point:
\* 12 points is 120.
\* ------------------------------------------------------------------------

\* self.grade_thresholds, in the dict's insertion order: (min, max) in points
grade_thresholds ==
    << [grade |-> "NH", min |-> 0, max |-> 12],
       [grade |-> "IL", min |-> 13, max |-> 17],
       [grade |-> "IM", min |-> 18, max |-> 22],
       [grade |-> "IH", min |-> 23, max |-> 27],
       [grade |-> "AL", min |-> 28, max |-> 30] >>

\* calculate_final_grade from entry k of grade_thresholds on: the first
\* entry with min_score <= total_score <= max_score, "NH" when none matches
RECURSIVE GradeFrom(_, _)
GradeFrom(k, total) ==
    IF k > Len(grade_thresholds) THEN "NH"
    ELSE IF /\ grade_thresholds[k].min * 10 <= total
            /\ total <= grade_thresholds[k].max * 10
         THEN grade_thresholds[k].grade
         ELSE GradeFrom(k + 1, total)

calculate_final_grade_exclusive(total) ==
    LET Hit(k) == /\ grade_thresholds[k].min * 10 < total
                  /\ total < grade_thresholds[k].max * 10
    IN  IF \E k \in DOMAIN grade_thresholds : Hit(k)
        THEN grade_thresholds[CHOOSE k \in DOMAIN grade_thresholds : Hit(k)].grade
        ELSE "NH"

calculate_final_grade(total) == GradeFrom(1, total)

\* the totals the model grades: -2.0 .. 32.0 in steps of 0.1
MaxBelow == 20
MaxTotal == 320
Totals == (0 - MaxBelow)..MaxTotal

\* calculate_final_grade applied to two totals a and b
CalculateFinalGrade ==
    /\ gr.status = "called"
    /\ gr' = [status |-> "returned", a |-> gr.a, b |-> gr.b,
              ga |-> calculate_final_grade(gr.a),
              gb |-> calculate_final_grade(gr.b)]
    /\ UNCHANGED <<extraVars, pipeVars, regVars, sc, ifb, ofb>>

GradeNext == CalculateFinalGrade

GradeInit ==
    /\ RegInit
    /\ gr \in { [status |-> "called", a |-> a, b |-> b] :
                  a \in Totals, b \in Totals }
    /\ sc = Idle /\ ifb = Idle /\ ofb = Idle
    /\ PipeIdle

GradeSpec == GradeInit /\ [][GradeNext]_vars

\* the five bands, lowest to highest
Rank(g) == CASE g = "NH" -> 1 [] g = "IL" -> 2 [] g = "IM" -> 3
             [] g = "IH" -> 4 [] g = "AL" -> 5 [] OTHER -> 0

\* C8: every total maps to one of the five bands, and a total that is not
\* smaller never gets a lower band.
C8_GradeTotalAndMonotonic ==
    gr.status = "returned"
    => /\ Rank(gr.ga) \in 1..5 /\ Rank(gr.gb) \in 1..5
       /\ gr.a <= gr.b => Rank(gr.ga) <= Rank(gr.gb)

\* the lower-inclusive, upper-exclusive bands of the rubric, in tenths
RubricBand(total) ==
    IF total < 120 THEN "NH"
    ELSE IF total < 180 THEN "IL"
    ELSE IF total < 230 THEN "IM"
    ELSE IF total < 280 THEN "IH"
    ELSE "AL"

\* C9: the grade of a total is its lower-inclusive, upper-exclusive band:
\* below 12 NH, 12 up to 18 IL, 18 up to 23 IM, 23 up to 28 IH, from 28 AL.
C9_LowerInclusiveBands ==
    gr.status = "returned" => gr.ga = RubricBand(gr.a)

\* ------------------------------------------------------------------------
\* Feedback stage (feedback_service.py).  A text is the sequence of its
\* lines; a line is [id, q]: which sentence it is and the number printed in
\* it (0 when it prints none).  Scores are in thousandths, as above.
\* ------------------------------------------------------------------------
Line(id, q) == [id |-> id, q |-> q]

Questions == 1..MaxQuestions

\* criterion scores of the ScoreBreakdowns given to the feedback stage
FbScores == {0, 5990, 6000, 10000}

Breakdown(tc, ac, ap) ==
    [task_completion |-> tc, accuracy |-> ac, appropriateness |-> ap,
     total |-> tc + ac + ap]

Breakdowns == { Breakdown(tc, ac, ap) : tc \in FbScores, ac \in FbScores, ap \in FbScores }

\* What the generative model does in one _generate_feedback_sync call:
\* load_model raises, predict raises, or predict returns text
GenOutcomes == {"generated", "load_raises", "predict_raises"}

Grades == {"NH", "IL", "IM", "IH", "AL"}

\* _get_score_level
_get_score_level_strict(score) ==
    IF score > 24000 THEN "excellent"
    ELSE IF score > 18000 THEN "good"
    ELSE IF score > 12000 THEN "average"
    ELSE "needs_improvement"

_get_score_level(score) ==
    IF score >= 24000 THEN "excellent"
    ELSE IF score >= 18000 THEN "good"
    ELSE IF score >= 12000 THEN "average"
    ELSE "needs_improvement"

\* _get_fallback_feedback: header with the question number, the sentence of
\* the score level, then one remark per criterion below 6
_get_fallback_feedback(scores, question_number) ==
    <<Line("analysis_header", question_number),
      Line(_get_score_level(scores.total), 0)>>
    \o (IF scores.task_completion < 6000 THEN <<Line("remark_task_completion", 0)>> ELSE << >>)
    \o (IF scores.accuracy < 6000 THEN <<Line("remark_accuracy", 0)>> ELSE << >>)
    \o (IF scores.appropriateness < 6000 THEN <<Line("remark_appropriateness", 0)>> ELSE << >>)

\* _get_fallback_overall_feedback: header, final score (one decimal, counted
\* in tenths), grade, and the sentence for the grade's group
_get_fallback_overall_feedback(final_score, grade) ==
    <<Line("overall_header", 0), Line("final_score", final_score), Line(grade, 0),
      Line(IF grade \in {"AL", "IH"} THEN "outstanding"
           ELSE IF grade \in {"IM", "IL"} THEN "good_basis"
           ELSE "build_basics", 0)>>

\* _generate_feedback_sync: lazy load, predict, _clean_feedback; every
\* exception is logged and re-raised.  tag identifies the prompt.
_generate_feedback_sync(outcome, tag) ==
    IF outcome = "generated"
    THEN [raised |-> FALSE, text |-> <<Line("generated", tag)>>]
    ELSE [raised |-> TRUE, text |-> << >>]

\* generate_individual_feedback: prompt, generation in the executor; any
\* exception gives the fallback feedback
generate_individual_feedback_reraise(scores, question_number, outcome) ==
    _generate_feedback_sync(outcome, question_number)

generate_individual_feedback(scores, question_number, outcome) ==
    LET r == _generate_feedback_sync(outcome, question_number)
    IN  IF r.raised
        THEN [raised |-> FALSE, text |-> _get_fallback_feedback(scores, question_number)]
        ELSE r

\* _build_overall_feedback_prompt divides by len(individual_scores)
BuildOverallPromptRaises(individual_scores) == Len(individual_scores) = 0

\* generate_overall_feedback: the prompt is built inside the try block, so
\* its exception gives the fallback overall feedback as well
generate_overall_feedback(final_score, grade, individual_scores, outcome) ==
    LET r == IF BuildOverallPromptRaises(individual_scores)
             THEN [raised |-> TRUE, text |-> << >>]
             ELSE _generate_feedback_sync(outcome, 0)
    IN  IF r.raised
        THEN [raised |-> FALSE, text |-> _get_fallback_overall_feedback(final_score, grade)]
        ELSE r

GenerateIndividualFeedback ==
    /\ ifb.status = "called"
    /\ LET r == generate_individual_feedback(ifb.scores, ifb.question_number, ifb.outcome)
       IN  ifb' = [status |-> IF r.raised THEN "raised" ELSE "returned",
                   scores |-> ifb.scores, question_number |-> ifb.question_number,
                   outcome |-> ifb.outcome, text |-> r.text]
    /\ UNCHANGED <<extraVars, pipeVars, regVars, sc, gr, ofb>>

GenerateOverallFeedback ==
    /\ ofb.status = "called"
    /\ LET r == generate_overall_feedback(ofb.final_score, ofb.grade,
                                          ofb.individual_scores, ofb.outcome)
       IN  ofb' = [status |-> IF r.raised THEN "raised" ELSE "returned",
                   final_score |-> ofb.final_score, grade |-> ofb.grade,
                   individual_scores |-> ofb.individual_scores,
                   outcome |-> ofb.outcome, text |-> r.text]
    /\ UNCHANGED <<extraVars, pipeVars, regVars, sc, gr, ifb>>

FeedbackNext ==
    \/ GenerateIndividualFeedback
    \/ GenerateOverallFeedback

\* individual_scores lists of length 0..MaxScores
ScoreLists ==
    UNION { [1..n -> {Breakdown(0, 0, 0), Breakdown(10000, 6000, 5990)}] : n \in 0..MaxScores }

FeedbackInit ==
    /\ RegInit
    /\ ifb \in { [status |-> "called", scores |-> b, question_number |-> q, outcome |-> o] :
                   b \in Breakdowns, q \in Questions, o \in GenOutcomes }
    /\ ofb \in { [status |-> "called", final_score |-> f, grade |-> g,
                  individual_scores |-> l, outcome |-> o] :
                   f \in {0, 260}, g \in Grades, l \in ScoreLists, o \in GenOutcomes }
    /\ sc = Idle /\ gr = Idle
    /\ PipeIdle

FeedbackSpec == FeedbackInit /\ [][FeedbackNext]_vars

\* C10: neither feedback call raises; when the generative model raises (at
\* load or at predict) the individual feedback is the fallback template for
\* the given scores and the overall feedback is the fallback overall text,
\* also when the list of individual scores is empty.
C10_GenerationFailureFallsBack ==
    /\ ifb.status # "called"
       => /\ ifb.status = "returned"
          /\ ifb.outcome # "generated"
             => ifb.text = _get_fallback_feedback(ifb.scores, ifb.question_number)
    /\ ofb.status # "called"
       => /\ ofb.status = "returned"
          /\ (ofb.outcome # "generated" \/ ofb.individual_scores = << >>)
             => ofb.text = _get_fallback_overall_feedback(ofb.final_score, ofb.grade)

\* C10 witness: predict raised for an individual feedback, and load_model
\* raised for an overall feedback over an empty list; both calls returned
C10_Witness ==
    /\ ifb.status = "returned" /\ ifb.outcome = "predict_raises"
    /\ ifb.scores = Breakdown(10000, 5990, 6000)
    /\ ifb.text = <<Line("analysis_header", ifb.question_number), Line("good", 0),
                    Line("remark_accuracy", 0)>>
    /\ ofb.status = "returned" /\ ofb.outcome = "load_raises"
    /\ ofb.individual_scores = << >>
    /\ ofb.grade = "IH"
    /\ ofb.text[4] = Line("outstanding", 0)

\* ------------------------------------------------------------------------
\* Batch feedback (feedback_service.py generate_batch_feedback).  Every
\* request becomes one generate_individual_feedback task; each task hands
\* its generation to the service's executor, whose workers take the jobs
\* in submission order and finish them in any order.
\* ------------------------------------------------------------------------
MaxBatch == 4

\* ThreadPoolExecutor(max_workers=2) of FeedbackService
FeedbackWorkers == 2

\* the slot of a task that has not finished yet
Pending == [done |-> FALSE, raised |-> FALSE, text |-> << >>]

\* one task of the batch: generate_individual_feedback on the request's
\* scores and question number
BatchResult_noscores(req) ==
    generate_individual_feedback(Breakdown(0, 0, 0), req.question_number, req.outcome)

BatchResult(req) ==
    generate_individual_feedback(req.scores, req.question_number, req.outcome)

\* asyncio.gather: the result of the i-th awaitable is the i-th element of
\* the list, whenever it finishes; return_exceptions=True stores a raised
\* exception as that element
GatherStore_completion_order(results, i, r) ==
    LET k == CHOOSE j \in 1..Len(results) :
                 /\ ~results[j].done
                 /\ \A l \in 1..(j - 1) : results[l].done
    IN  [results EXCEPT ![k] = [done |-> TRUE, raised |-> r.raised, text |-> r.text]]

GatherStore(results, i, r) ==
    [results EXCEPT ![i] = [done |-> TRUE, raised |-> r.raised, text |-> r.text]]

\* the loop over the gathered results: the failure notice with the position
\* for an exception, the feedback itself otherwise
BatchOutput(results) ==
    [i \in 1..Len(results) |->
        IF results[i].raised THEN <<Line("batch_failed", i)>> ELSE results[i].text]

\* generate_batch_feedback up to the await: the tasks are created in
\* request order and each submits its job
BatchSubmit ==
    /\ batch.status = "called"
    /\ batch' = [batch EXCEPT !.status = "gathering"]
    /\ UNCHANGED <<extraVars, regVars, stageVars, multi, jobs, fl>>

\* a free worker of the executor takes the oldest queued job
BatchWorkerStart ==
    /\ batch.status = "gathering"
    /\ batch.started < Len(batch.reqs)
    /\ Cardinality(batch.running) < FeedbackWorkers
    /\ batch' = [batch EXCEPT !.started = @ + 1, !.running = @ \cup {batch.started + 1}]
    /\ UNCHANGED <<extraVars, regVars, stageVars, multi, jobs, fl>>

\* the job of task i ends, the task resumes and finishes with its result
BatchTaskDone(i) ==
    /\ batch.status = "gathering"
    /\ i \in batch.running
    /\ batch' = [batch EXCEPT !.running = @ \ {i},
                              !.results = GatherStore(@, i, BatchResult(batch.reqs[i])),
                              !.overtaken = @ \/ \E j \in batch.running : j < i]
    /\ UNCHANGED <<extraVars, regVars, stageVars, multi, jobs, fl>>

\* gather returns once every task has finished; the list is built and returned
BatchReturn ==
    /\ batch.status = "gathering"
    /\ \A i \in 1..Len(batch.reqs) : batch.results[i].done
    /\ batch' = [batch EXCEPT !.status = "returned", !.output = BatchOutput(batch.results)]
    /\ UNCHANGED <<extraVars, regVars, stageVars, multi, jobs, fl>>

BatchNext ==
    \/ BatchSubmit
    \/ BatchWorkerStart
    \/ \E i \in batch.running : BatchTaskDone(i)
    \/ BatchReturn

\* request i asks for the feedback of question i
Request(i, b, o) == [scores |-> b, question_number |-> i, outcome |-> o]

\* a generate_batch_feedback call on the requests, nothing started yet;
\* overtaken records whether a task finished before one created earlier
BatchCall(reqs) ==
    [status |-> "called", reqs |-> reqs, started |-> 0, running |-> {},
     results |-> [i \in 1..Len(reqs) |-> Pending], output |-> << >>,
     overtaken |-> FALSE]

BatchScores == {Breakdown(0, 0, 0), Breakdown(10000, 6000, 5990)}

\* every batch of 0..MaxBatch requests, with every set of failing generations
BatchInit ==
    /\ RegInit
    /\ sc = Idle /\ gr = Idle /\ ifb = Idle /\ ofb = Idle
    /\ multi = Idle /\ jobs = << >> /\ fl = FlaskStart
    /\ ExtraIdle
    /\ \E n \in 0..MaxBatch :
         \E bs \in [1..n -> BatchScores], os \in [1..n -> GenOutcomes] :
            batch = BatchCall([i \in 1..n |-> Request(i, bs[i], os[i])])

BatchSpec == BatchInit /\ [][BatchNext]_vars

\* the text generate_individual_feedback is specified to give for a request
TextFor(req) ==
    IF req.outcome = "generated"
    THEN <<Line("generated", req.question_number)>>
    ELSE <<Line("analysis_header", req.question_number)>>

ExamInit ==
    /\ RegInit
    /\ sc = Idle /\ gr = Idle /\ ifb = Idle /\ ofb = Idle
    /\ multi = Idle /\ jobs = << >> /\ fl = FlaskStart
    /\ ExtraIdle
    /\ \E k \in 0..NumQuestions, b \in BatchScores, o \in GenOutcomes \ {"generated"} :
          batch = BatchCall([i \in 1..NumQuestions |->
                      IF i = k THEN Request(i, b, o)
                      ELSE Request(i, Breakdown(10000, 10000, 10000), "generated")])

ExamSpec == ExamInit /\ [][BatchNext]_vars

\* the requests of the batch whose generation raises
FailingRequests == { i \in 1..Len(batch.reqs) : batch.reqs[i].outcome # "generated" }

\* C12: in a batch of 15 in which the generation of one question only
\* raises, the element at that question's position is the fallback text
\* computed from that request's scores and question number, and every other
\* element is the text generated for its own request.
C12_OneFailureFallsBackInPlace ==
    (batch.status = "returned" /\ Len(batch.reqs) = NumQuestions)
    => \A k \in FailingRequests :
          FailingRequests = {k}
          => /\ batch.output[k] =
                  _get_fallback_feedback(batch.reqs[k].scores, batch.reqs[k].question_number)
             /\ \A i \in 1..NumQuestions \ {k} :
                    batch.output[i] = <<Line("generated", i)>>

\* C12 witness: the batch of 15 returned after predict raised for
\* question 7 only; element 7 is the fallback for its scores
C12_Witness ==
    /\ batch.status = "returned"
    /\ Len(batch.reqs) = 15
    /\ FailingRequests = {7}
    /\ batch.reqs[7].outcome = "predict_raises"
    /\ batch.reqs[7].scores = Breakdown(10000, 6000, 5990)
    /\ batch.output[7] = <<Line("analysis_header", 7), Line("good", 0),
                           Line("remark_appropriateness", 0)>>
    /\ batch.output[6] = <<Line("generated", 6)>>
    /\ batch.output[8] = <<Line("generated", 8)>>

\* ------------------------------------------------------------------------
\* Scoring several answers (scoring_service.py score_multiple_answers)
\* ------------------------------------------------------------------------
MaxAnswers == 3

\* a question_number that is no integer (the answer dicts are untyped);
\* question numbers proper start at 1
NoneValue == 0

\* ScoringResult(question_number: int, ...): validation fails for a
\* question_number that is no integer
ValidScoringResult(question_number) == question_number # NoneValue

\* score_single_answer as a function of the classifiers' behaviour: the
\* outcomes of one call (more than one only at a rounding tie); the
\* exception of a failed validation is re-raised
score_single_answer(raw, fails, question_number) ==
    LET scores == [c \in Criteria |-> ScoreCriterion(fails[c], raw[c])]
        total == scores["task_completion"] + scores["accuracy"]
                   + scores["appropriateness"]
    IN  { LET b == [task_completion |-> tc, accuracy |-> ac,
                    appropriateness |-> ap, total |-> tt]
          IN  [raised |-> ~(ValidBreakdown(b) /\ ValidScoringResult(question_number)),
               question_number |-> question_number, score_breakdown |-> b] :
            tc \in Round2(scores["task_completion"]),
            ac \in Round2(scores["accuracy"]),
            ap \in Round2(scores["appropriateness"]),
            tt \in Round2(total) }

\* asyncio.gather(*tasks, return_exceptions=True) over one
\* score_single_answer per answer: the outcomes in answer order
RECURSIVE GatherScores(_)
GatherScores(answers) ==
    IF answers = << >> THEN { << >> }
    ELSE { <<o>> \o rest :
             o \in score_single_answer(Head(answers).raw, Head(answers).fails,
                                       Head(answers).question_number),
             rest \in GatherScores(Tail(answers)) }

\* the loop over the gathered results: an exception is logged, every other
\* result is appended to valid_results
NotRaised(o) == ~o.raised
FilterExceptions(results) == SelectSeq(results, NotRaised)

ScoreMultipleAnswers ==
    /\ multi.status = "called"
    /\ \E results \in GatherScores(multi.answers) :
          multi' = [status |-> "returned", answers |-> multi.answers,
                    gathered |-> results, results |-> FilterExceptions(results)]
    /\ UNCHANGED <<extraVars, regVars, stageVars, batch, jobs, fl>>

MultiNext == ScoreMultipleAnswers

\* the answers of a call: answer i is the answer to question i, or carries
\* no usable question number
AnswerData(i) ==
    { [question_number |-> q, raw |-> [c \in Criteria |-> x], fails |-> [c \in Criteria |-> f]] :
        q \in {i, NoneValue}, x \in {-1500, 7123}, f \in BOOLEAN }

MultiInit ==
    /\ RegInit
    /\ sc = Idle /\ gr = Idle /\ ifb = Idle /\ ofb = Idle
    /\ batch = Idle /\ jobs = << >> /\ fl = FlaskStart
    /\ ExtraIdle
    /\ \E n \in 0..MaxAnswers :
         \E answers \in [1..n -> UNION { AnswerData(i) : i \in 1..n }] :
            /\ \A i \in 1..n : answers[i] \in AnswerData(i)
            /\ multi = [status |-> "called", answers |-> answers]

MultiSpec == MultiInit /\ [][MultiNext]_vars

\* C13: score_multiple_answers returns exactly one ScoringResult per input
\* answer, in input order, also when the scoring of some answers fails.
C13_OneResultPerAnswer ==
    multi.status = "returned"
    => /\ Len(multi.results) = Len(multi.answers)
       /\ \A i \in 1..Len(multi.answers) :
             multi.results[i].question_number = multi.answers[i].question_number

\* ------------------------------------------------------------------------
\* Startup and load failures (main.py lifespan, ml_models.py)
\* ------------------------------------------------------------------------

\* C14: when the artifact of any role cannot be initialised during the
\* startup load_all_models, startup is aborted: the app is never serving
\* with a role whose artifact is not available.
C14_ServingMeansEveryRoleAvailable ==
    app = "serving"
    => \A r \in Roles :
          /\ instances[r] # NoHandle
          /\ CanInfer(handles[instances[r]])

\* position of a role in the load order
OrderOf(r) == CHOOSE k \in 1..Len(LoadOrder) : LoadOrder[k] = r

\* what a load_model call that returned leaves in its handle: the artifacts,
\* or nothing for a classifier whose model path is missing
KeepsItsLoad(h) ==
    IF Kind(h.role) = "whisper"
    THEN h.model = "Set" /\ h.processor = "Set" /\ h.pipeline = "Set"
    ELSE IF Kind(h.role) = "roberta"
    THEN \/ h.model = "Set" /\ h.tokenizer = "Set"
         \/ h.model = "None" /\ h.tokenizer = "None"
    ELSE h.pipeline = "Set"

\* C15: when load_model raises for a role during load_all_models, the
\* exception propagates (startup fails), the roles ordered after the failing
\* one are not loaded, and every role loaded before it stays registered with
\* what its load gave it: nothing is rolled back.
C15_LoadFailureStopsWithoutRollback ==
    (lastOp.op = "load_all_models" /\ lastOp.raised)
    => LET k == OrderOf(handles[lastOp.h].role)
       IN  /\ app = "failed"
           /\ instances[LoadOrder[k]] = lastOp.h
           /\ \A j \in 1..Len(LoadOrder) :
                 /\ j > k => instances[LoadOrder[j]] = NoHandle
                 /\ j < k => /\ instances[LoadOrder[j]] # NoHandle
                             /\ KeepsItsLoad(handles[instances[LoadOrder[j]]])

\* C15 witness: the load of the accuracy classifier raised after its model
\* was set; whisper and the task-completion classifier stay loaded and
\* registered, the last two roles were never constructed
C15_Witness ==
    /\ lastOp.op = "load_all_models" /\ lastOp.raised
    /\ app = "failed"
    /\ handles[lastOp.h].role = "roberta_accuracy"
    /\ handles[lastOp.h].model = "Set"
    /\ CanInfer(handles[instances["whisper"]])
    /\ CanInfer(handles[instances["roberta_task_completion"]])
    /\ instances["roberta_appropriateness"] = NoHandle
    /\ instances["llama"] = NoHandle
    /\ Len(handles) = 3

\* C19: a handle reports is_loaded() = true only when its inference
\* pipeline is fully initialised; a load_model that failed partway leaves
\* no handle that reports loaded but cannot run inference.
C19_LoadedMeansCanInfer ==
    \A i \in DOMAIN handles :
        (~is_loaded_raises(handles[i]) /\ is_loaded(handles[i]))
        => CanInfer(handles[i])

\* ------------------------------------------------------------------------
\* The Flask app (app.py): the routes of the question pages, the task queue
\* and the backgroundTask consumer threads
\* ------------------------------------------------------------------------
FlUnchanged == UNCHANGED <<extraVars, regVars, stageVars, batch, multi, jobs>>

\* /background_start: starts one more backgroundTask thread and puts the
\* session on question page 1
BackgroundStart(s) ==
    /\ Len(fl.consumer) < MaxConsumers
    /\ fl' = [fl EXCEPT !.consumer = Append(@, [pc |-> "waiting", item |-> 0]),
                        !.page[s] = 1]
    /\ FlUnchanged

\* /question_page: the next question page
QuestionPage(s) ==
    /\ fl.page[s] # 0
    /\ fl.page[s] < MaxPage
    /\ fl' = [fl EXCEPT !.page[s] = @ + 1]
    /\ FlUnchanged

\* /save_recording: the upload is saved as record{question_page_number}.wav
SaveRecording(s) ==
    /\ fl.page[s] # 0
    /\ fl' = [fl EXCEPT !.records[fl.page[s]] = s]
    /\ FlUnchanged

\* /transcript: the session's question page number is put on the queue
Transcript(s) ==
    /\ fl.page[s] # 0
    /\ Len(fl.task_queue) < MaxQueue
    /\ fl' = [fl EXCEPT !.task_queue = Append(@, fl.page[s])]
    /\ FlUnchanged

\* /get_transcriptListLength: len(transcript_list)
GetTranscriptListLength(s) ==
    /\ fl' = [fl EXCEPT !.seen[s] = Cardinality(DOMAIN fl.transcript_list)]
    /\ FlUnchanged

\* /grading: every text of transcript_list, in key order, is scored
Grading(s) ==
    /\ fl.page[s] # 0
    /\ fl.graded[s] = << >>
    /\ fl' = [fl EXCEPT !.graded[s] = [q \in 1..NumQuestions |-> fl.transcript_list[q]]]
    /\ FlUnchanged

\* backgroundTask: task_queue.get() blocks until the queue has an item
ConsumerGet(c) ==
    /\ fl.consumer[c].pc = "waiting"
    /\ fl.task_queue # << >>
    /\ fl' = [fl EXCEPT !.consumer[c] = [pc |-> "transcribing", item |-> Head(fl.task_queue)],
                        !.task_queue = Tail(@)]
    /\ FlUnchanged

\* backgroundTask: whisper_pipe on the record of the item; the text is
\* stored and the loop ends when transcript_list has 15 entries.  The loop
\* has no exception handler: when whisper_pipe raises (always for a missing
\* file) the thread ends.
ConsumerTranscribe(c) ==
    /\ fl.consumer[c].pc = "transcribing"
    /\ LET n == fl.consumer[c].item
       IN  \/ /\ fl.records[n] # 0
              /\ LET stored == [fl.transcript_list EXCEPT ![n] = [src |-> fl.records[n], q |-> n]]
                 IN  fl' = [fl EXCEPT !.transcript_list = stored,
                                      !.consumer[c].pc =
                                          IF Cardinality(DOMAIN stored) = 15
                                          THEN "stopped" ELSE "waiting"]
           \/ fl' = [fl EXCEPT !.consumer[c].pc = "died"]
    /\ FlUnchanged

FlaskNext ==
    \/ \E s \in Sessions : BackgroundStart(s)
    \/ \E s \in Sessions : QuestionPage(s)
    \/ \E s \in Sessions : SaveRecording(s)
    \/ \E s \in Sessions : Transcript(s)
    \/ \E s \in Sessions : GetTranscriptListLength(s)
    \/ \E s \in Sessions : Grading(s)
    \/ \E c \in DOMAIN fl.consumer : ConsumerGet(c)
    \/ \E c \in DOMAIN fl.consumer : ConsumerTranscribe(c)

FlaskSpec == Init /\ [][FlaskNext]_vars

\* C16: the consumer stops only once real transcripts for all fifteen
\* questions have been produced (so every queued index gets transcribed).
C16_ConsumerStopsOnlyWhenAllTranscribed ==
    \A c \in DOMAIN fl.consumer :
        fl.consumer[c].pc = "stopped"
        => \A q \in 1..NumQuestions : fl.transcript_list[q] # Hello

\* C17: grading never scores a transcript slot that has not been filled
\* with the real transcript of its question.
C17_GradingScoresOnlyRealTranscripts ==
    \A s \in Sessions :
        fl.graded[s] # << >>
        => \A q \in 1..NumQuestions : fl.graded[s][q] # Hello

\* C18: a missing recording or a raising transcription of one queued index
\* does not end the consumer: the thread keeps running.
C18_FailureLeavesConsumerRunning ==
    \A c \in DOMAIN fl.consumer : fl.consumer[c].pc # "died"

\* ------------------------------------------------------------------------
\* Dispatch of inference to executors (audio_service.py, scoring_service.py,
\* feedback_service.py).  A job is one run_in_executor work item:
\* [svc, executor, fn, st, thread]; st is "queued", "running" (inside fn,
\* before the model call), or "predict" (inside the model's predict);
\* finished jobs leave the sequence.  thread is the thread that runs fn.
\* ------------------------------------------------------------------------
Services == 1..MaxServices

AsyncCalls == {"transcribe_audio", "score_single_answer",
               "generate_individual_feedback", "generate_overall_feedback"}

\* the synchronous functions a call hands over, in submission order
SyncFns(call) ==
    IF call = "transcribe_audio" THEN <<"_transcribe_sync">>
    ELSE IF call = "score_single_answer"
    THEN <<"_score_task_completion", "_score_accuracy", "_score_appropriateness">>
    ELSE <<"_generate_feedback_sync">>

\* the executor a call passes: None (the loop's default pool) or the
\* service's own ThreadPoolExecutor
ExecutorOf(call) ==
    IF call = "transcribe_audio" THEN "default"
    ELSE IF call = "score_single_answer" THEN "scoring"
    ELSE "feedback"

\* ThreadPoolExecutor(max_workers=3) of ScoringService
ScoringWorkers == 3

\* the default pool has min(32, os.cpu_count() + 4) workers: 5 at least
DefaultWorkers == 5

Workers(executor) ==
    IF executor = "scoring" THEN ScoringWorkers
    ELSE IF executor = "feedback" THEN FeedbackWorkers
    ELSE DefaultWorkers

\* the pool a job waits in: the default pool is one per event loop, the
\* other two are one per service object
PoolOf(job) ==
    IF job.executor = "default" THEN <<0, "default">> ELSE <<job.svc, job.executor>>

\* loop.run_in_executor(executor, fn, ...): fn is queued for a worker thread
\* of the executor; the coroutine awaits the future
run_in_executor_inline(svc, executor, fn) ==
    [svc |-> svc, executor |-> executor, fn |-> fn, st |-> "running",
     thread |-> "event_loop"]

run_in_executor(svc, executor, fn) ==
    [svc |-> svc, executor |-> executor, fn |-> fn, st |-> "queued",
     thread |-> "none"]

\* one of the four async service methods, up to its await
ServiceCall(svc, call) ==
    /\ Len(jobs) + Len(SyncFns(call)) <= MaxJobs
    /\ jobs' = jobs \o [k \in 1..Len(SyncFns(call)) |->
                           run_in_executor(svc, ExecutorOf(call), SyncFns(call)[k])]
    /\ UNCHANGED <<extraVars, regVars, stageVars, batch, multi, fl>>

\* a free worker thread of the job's pool takes the oldest queued job
WorkerStart(j) ==
    /\ jobs[j].st = "queued"
    /\ \A l \in 1..(j - 1) : ~(PoolOf(jobs[l]) = PoolOf(jobs[j]) /\ jobs[l].st = "queued")
    /\ Cardinality({ l \in DOMAIN jobs : /\ PoolOf(jobs[l]) = PoolOf(jobs[j])
                                         /\ jobs[l].thread = "worker" })
         < Workers(jobs[j].executor)
    /\ jobs' = [jobs EXCEPT ![j].st = "running", ![j].thread = "worker"]
    /\ UNCHANGED <<extraVars, regVars, stageVars, batch, multi, fl>>

\* fn reaches the model call: predict of the service's handle
JobPredict(j) ==
    /\ jobs[j].st = "running"
    /\ jobs' = [jobs EXCEPT ![j].st = "predict"]
    /\ UNCHANGED <<extraVars, regVars, stageVars, batch, multi, fl>>

\* fn returns or raises (before or in the model call): the future resolves
JobDone(j) ==
    /\ jobs[j].st \in {"running", "predict"}
    /\ jobs' = [k \in 1..(Len(jobs) - 1) |-> IF k < j THEN jobs[k] ELSE jobs[k + 1]]
    /\ UNCHANGED <<extraVars, regVars, stageVars, batch, multi, fl>>

DispatchNext ==
    \/ \E svc \in Services, call \in AsyncCalls : ServiceCall(svc, call)
    \/ \E j \in DOMAIN jobs : WorkerStart(j)
    \/ \E j \in DOMAIN jobs : JobPredict(j)
    \/ \E j \in DOMAIN jobs : JobDone(j)

DispatchSpec == Init /\ [][DispatchNext]_vars

\* C20: every model inference call issued by transcribe_audio,
\* score_single_answer, generate_individual_feedback and
\* generate_overall_feedback executes on a worker-pool thread, never on the
\* event-loop thread.
C20_InferenceOnWorkerThreads ==
    \A j \in DOMAIN jobs :
        jobs[j].st = "predict"
        => jobs[j].thread = "worker"

\* C20 witness: a transcription, a criterion scoring and a feedback
\* generation are inside their model calls at once, each on a worker of
\* its own pool
C20_Witness ==
    /\ \E j \in DOMAIN jobs :
          jobs[j].fn = "_transcribe_sync" /\ jobs[j].st = "predict" /\ jobs[j].thread = "worker"
    /\ \E j \in DOMAIN jobs :
          jobs[j].fn = "_score_accuracy" /\ jobs[j].st = "predict" /\ jobs[j].thread = "worker"
    /\ \E j \in DOMAIN jobs :
          jobs[j].fn = "_generate_feedback_sync" /\ jobs[j].st = "predict" /\ jobs[j].thread = "worker"

\* the jobs that are inside a model call of the given functions
Inferring(fns) == { j \in DOMAIN jobs : jobs[j].fn \in fns /\ jobs[j].st = "predict" }

\* C21: at any moment at most 3 criterion-scoring inferences and at most 2
\* feedback-generation inferences are running, however many requests are
\* being served.
C21_InferencesBoundedByPools ==
    /\ Cardinality(Inferring({"_score_task_completion", "_score_accuracy",
                              "_score_appropriateness"})) <= 3
    /\ Cardinality(Inferring({"_generate_feedback_sync"})) <= 2

\* ------------------------------------------------------------------------
\* Repositories (repositories/answer_repo.py, grade_repo.py, base.py) over
\* the tables of models/database.py.  A table is the sequence of its rows
\* in insertion order (the position is the primary key).  Every request
\* has its own database session; a create_or_update call reads committed
\* rows in its query and commits in its write.
\* ------------------------------------------------------------------------
StudentIds == 1..NStudents

DbUnchanged == UNCHANGED <<regVars, stageVars, pipeVars, cf, fbk>>

\* query(...).filter(...).first(): the first of the rows the filter keeps
\* (matching: their positions in the table), 0 for None
FirstRow(matching) ==
    IF matching = {} THEN 0
    ELSE CHOOSE i \in matching : \A j \in matching : i <= j

\* create_or_update_answer up to the test of existing_answer:
\* get_by_student_and_question
AnswerQuery(w, sid, qn) ==
    /\ db.client[w].pc = "idle"
    /\ db.writes < MaxWrites
    /\ LET matching == { i \in DOMAIN db.answers :
                            /\ db.answers[i].student_id = sid
                            /\ db.answers[i].question_number = qn }
       IN  db' = [db EXCEPT !.client[w] =
                     [pc |-> "answer", student_id |-> sid, question_number |-> qn,
                      existing |-> FirstRow(matching)]]
    /\ DbUnchanged

\* create_or_update_answer after the test: setattr and commit on the row
\* found, or BaseRepository.create (add, commit).  The answer table has no
\* unique constraint on (student_id, question_number).
AnswerWrite(w) ==
    /\ db.client[w].pc = "answer"
    /\ LET c == db.client[w]
           row == [student_id |-> c.student_id, question_number |-> c.question_number,
                   written_by |-> w]
       IN  db' = [db EXCEPT !.answers = IF c.existing # 0
                                        THEN [@ EXCEPT ![c.existing] = row]
                                        ELSE Append(@, row),
                            !.client[w] = [pc |-> "idle"],
                            !.writes = @ + 1]
    /\ DbUnchanged

\* create_or_update_grade up to the test of existing_grade: get_by_student_id
GradeQuery(w, sid) ==
    /\ db.client[w].pc = "idle"
    /\ db.writes < MaxWrites
    /\ LET matching == { i \in DOMAIN db.grades : db.grades[i].student_id = sid }
       IN  db' = [db EXCEPT !.client[w] =
                     [pc |-> "grade", student_id |-> sid,
                      existing |-> FirstRow(matching)]]
    /\ DbUnchanged

\* create_or_update_grade after the test.  Grade.student_id is unique: the
\* commit of an insert for a student that has a row by now raises
\* IntegrityError, create rolls back and re-raises.
GradeWrite(w) ==
    /\ db.client[w].pc = "grade"
    /\ LET c == db.client[w]
           row == [student_id |-> c.student_id, written_by |-> w]
           taken == \E i \in DOMAIN db.grades : db.grades[i].student_id = c.student_id
       IN  db' = [db EXCEPT !.grades = IF c.existing # 0
                                       THEN [@ EXCEPT ![c.existing] = row]
                                       ELSE IF taken THEN @
                                       ELSE Append(@, row),
                            !.client[w] = [pc |-> "idle"],
                            !.writes = @ + 1]
    /\ DbUnchanged

RepoNext ==
    \/ \E w \in Clients, sid \in StudentIds, qn \in Questions : AnswerQuery(w, sid, qn)
    \/ \E w \in Clients : AnswerWrite(w)
    \/ \E w \in Clients, sid \in StudentIds : GradeQuery(w, sid)
    \/ \E w \in Clients : GradeWrite(w)

RepoSpec == Init /\ [][RepoNext]_vars

\* C22: after any interleaving of create_or_update calls there is at most
\* one grade row per student_id and at most one answer row per
\* (student_id, question_number).
C22_OneRowPerKey ==
    /\ \A i, j \in DOMAIN db.grades :
          db.grades[i].student_id = db.grades[j].student_id => i = j
    /\ \A i, j \in DOMAIN db.answers :
          ( /\ db.answers[i].student_id = db.answers[j].student_id
            /\ db.answers[i].question_number = db.answers[j].question_number )
          => i = j

\* ------------------------------------------------------------------------
\* Transcription through AudioService (audio_service.py)
\* ------------------------------------------------------------------------

\* _transcribe_sync on the service's whisper handle: the load guard, then
\* predict; every exception is re-raised.  Outcomes: [h, raised]
_transcribe_sync(h) ==
    IF is_loaded_raises(h)
    THEN { [h |-> h, raised |-> TRUE] }
    ELSE LET guarded == IF is_loaded(h)
                        THEN { [h |-> h, raised |-> FALSE, loaded |-> FALSE] }
                        ELSE load_model(h)
             Then(o) == IF o.raised THEN { [h |-> o.h, raised |-> TRUE] }
                        ELSE predict(o.h)
         IN  UNION { Then(o) : o \in guarded }

\* transcribe_audio: FileNotFoundError when os.path.exists(file_path) is
\* false, before anything is handed to the executor; otherwise the outcome
\* of _transcribe_sync.  Outcomes: [h, raised, not_found]
transcribe_audio_unchecked(h, exists) ==
    { [h |-> o.h, raised |-> o.raised \/ ~exists, not_found |-> FALSE] :
        o \in _transcribe_sync(h) }

transcribe_audio(h, exists) ==
    IF ~exists
    THEN { [h |-> h, raised |-> TRUE, not_found |-> TRUE] }
    ELSE { [h |-> o.h, raised |-> o.raised, not_found |-> FALSE] :
             o \in _transcribe_sync(h) }

\* a transcribe_audio call of the service that holds the whisper handle
TranscribeAudio(t, exists) ==
    /\ pc[t] = "done"
    /\ handles[tret[t]].role = "whisper"
    /\ ncalls < MaxCalls
    /\ \E o \in transcribe_audio(handles[tret[t]], exists) :
         /\ handles' = [handles EXCEPT ![tret[t]] = o.h]
         /\ lastOp' = [op |-> "transcribe_audio", h |-> tret[t], raised |-> o.raised,
                       exists |-> exists, not_found |-> o.not_found]
    /\ ncalls' = ncalls + 1
    /\ UNCHANGED <<instances, constructed, pc, trole, tret, tstale,
                   nconstruct, app, cleanups>>
    /\ UNCHANGED <<stageVars, pipeVars, extraVars>>

AudioNext ==
    \/ Get(Service, "whisper")
    \/ \E exists \in BOOLEAN : TranscribeAudio(Service, exists)
    \/ Cleanup

AudioSpec == Init /\ [][AudioNext]_vars

\* C23: transcribe_audio on a path whose file does not exist fails with the
\* not-found error, without invoking the transcription model and without
\* changing the registry or the load state of any handle.
C23_MissingFileFailsBeforeTheModel ==
    [][ (lastOp'.op = "transcribe_audio" /\ ~lastOp'.exists)
        => /\ lastOp'.raised
           /\ lastOp'.not_found
           /\ handles' = handles
           /\ instances' = instances ]_vars

\* C23 witness: a transcribe_audio call on a missing file has just failed
\* on a handle that was not loaded, and the handle is still not loaded
C23_Witness ==
    /\ lastOp.op = "transcribe_audio"
    /\ ~lastOp.exists /\ lastOp.raised /\ lastOp.not_found
    /\ handles[lastOp.h] = NewManager("whisper")
    /\ instances["whisper"] = lastOp.h

\* no artifact attribute of the handle holds anything
Unloaded(h) ==
    /\ h.model = "None" /\ h.tokenizer = "None"
    /\ h.processor = "None" /\ h.pipeline = "None"

\* C24: over a sequence of get calls with no cleanup in between, a get for
\* a role that is registered returns the registered handle, a get on a role
\* that is not registered returns a new unloaded handle and registers it,
\* and no get changes the load state of any existing handle.
C24_GetIsIdempotentAndLoadsNothing ==
    [][ lastOp'.op = "get"
        => LET i == lastOp'.h
               r == handles'[i].role
           IN  /\ instances'[r] = i
               /\ instances[r] # NoHandle => i = instances[r]
               /\ instances[r] = NoHandle
                    => /\ i \notin DOMAIN handles
                       /\ Unloaded(handles'[i])
                       /\ ~is_loaded(handles'[i])
               /\ \A j \in DOMAIN handles : handles'[j] = handles[j]
               /\ \A q \in Roles \ {r} : instances'[q] = instances[q] ]_vars

\* C24 witness: a second get for whisper returned the handle the first get
\* registered, after that handle had been loaded; it is still loaded
C24_Witness ==
    /\ lastOp.op = "get"
    /\ handles[lastOp.h].role = "whisper"
    /\ constructed["whisper"] = 1
    /\ cleanups = 0
    /\ CanInfer(handles[lastOp.h])
    /\ instances["whisper"] = lastOp.h

\* the band the rubric scenarios name for a total (in tenths), "" for a
\* total no scenario is about
ScenarioBand(total) ==
    IF total = 260 THEN "IH" ELSE IF total = 300 THEN "AL"
    ELSE IF total = 0 THEN "NH" ELSE ""

\* C25: classifier outputs (9, 8, 9) give a question total of 26, and
\* calculate_final_grade gives IH for 26, AL for 30 and NH for 0.
C25_RubricScenarios ==
    /\ \A o \in score_single_answer(
                   [task_completion |-> 9000, accuracy |-> 8000, appropriateness |-> 9000],
                   [c \in Criteria |-> FALSE], 1) :
          ~o.raised /\ o.score_breakdown.total = 26000
    /\ gr.status = "returned"
       => /\ ScenarioBand(gr.a) # "" => gr.ga = ScenarioBand(gr.a)
          /\ ScenarioBand(gr.b) # "" => gr.gb = ScenarioBand(gr.b)

\* C25 witness: the totals 26 and 30 have been graded IH and AL
C25_Witness ==
    /\ gr.status = "returned"
    /\ gr.a = 260 /\ gr.ga = "IH"
    /\ gr.b = 300 /\ gr.gb = "AL"

\* ------------------------------------------------------------------------
\* The fallback feedback on its own (feedback_service.py
\* _get_fallback_feedback), called twice on one input by a service that
\* holds the LLaMA handle
\* ------------------------------------------------------------------------

\* what one _get_fallback_feedback call does: it reads scores and
\* question_number only; self.llama_model is not touched.  Outcomes:
\* [h, text], h being the service's LLaMA handle after the call
fallback_call_generating(h, scores, question_number) ==
    { [h |-> o.h,
       text |-> IF o.raised THEN _get_fallback_feedback(scores, question_number)
                ELSE <<Line("generated", question_number)>>] : o \in predict(h) }

fallback_call(h, scores, question_number) ==
    { [h |-> h, text |-> _get_fallback_feedback(scores, question_number)] }

GetFallbackFeedback(t) ==
    /\ fbk.status = "called"
    /\ pc[t] = "done"
    /\ handles[tret[t]].role = "llama"
    /\ \E o \in fallback_call(handles[tret[t]], fbk.scores, fbk.question_number) :
         /\ handles' = [handles EXCEPT ![tret[t]] = o.h]
         /\ fbk' = [fbk EXCEPT !.texts = Append(@, o.text),
                               !.status = IF Len(fbk.texts) = 1 THEN "returned" ELSE "called"]
    /\ lastOp' = Op("_get_fallback_feedback", tret[t], FALSE)
    /\ UNCHANGED <<instances, constructed, pc, trole, tret, tstale,
                   nconstruct, app, cleanups, ncalls>>
    /\ UNCHANGED <<stageVars, pipeVars, db, cf>>

FallbackNext ==
    \/ Get(Service, "llama")
    \/ EnsureLoaded(Service)
    \/ GetFallbackFeedback(Service)

\* the totals around the tier thresholds; a ScoreBreakdown's total is a
\* field of its own
FallbackTotals == {0, 11990, 12000, 17990, 18000, 23990, 24000, 30000}

FallbackInit ==
    /\ RegInit
    /\ sc = Idle /\ gr = Idle /\ ifb = Idle /\ ofb = Idle
    /\ batch = Idle /\ multi = Idle /\ jobs = << >> /\ fl = FlaskStart
    /\ db = DbStart /\ cf = Idle
    /\ fbk \in { [status |-> "called",
                  scores |-> [task_completion |-> tc, accuracy |-> ac,
                              appropriateness |-> ap, total |-> tt],
                  question_number |-> q, texts |-> << >>] :
                   tc \in FbScores, ac \in FbScores, ap \in FbScores,
                   tt \in FallbackTotals, q \in Questions }

FallbackSpec == FallbackInit /\ [][FallbackNext]_vars

LineIds(text) == { text[l].id : l \in DOMAIN text }

\* C27: the tier sentence follows from the total alone (>= 24 excellent,
\* >= 18 good, >= 12 average, else needs-improvement), and the remark of a
\* criterion is in the text exactly when that criterion's score is below 6.
C27_TierFromTotalRemarksBelowSix ==
    \A k \in DOMAIN fbk.texts :
        LET text == fbk.texts[k]
            tt == fbk.scores.total
        IN  /\ text[1] = Line("analysis_header", fbk.question_number)
            /\ text[2].id = IF tt >= 24000 THEN "excellent"
                            ELSE IF tt >= 18000 THEN "good"
                            ELSE IF tt >= 12000 THEN "average"
                            ELSE "needs_improvement"
            /\ ("remark_task_completion" \in LineIds(text)) <=> (fbk.scores.task_completion < 6000)
            /\ ("remark_accuracy" \in LineIds(text)) <=> (fbk.scores.accuracy < 6000)
            /\ ("remark_appropriateness" \in LineIds(text)) <=> (fbk.scores.appropriateness < 6000)

\* C27 witness: a total of exactly 24 with accuracy 5.99 and the other two
\* criteria at 6 and 10 gave the excellent sentence and the accuracy remark
\* only
C27_Witness ==
    /\ Len(fbk.texts) >= 1
    /\ fbk.scores = [task_completion |-> 6000, accuracy |-> 5990,
                     appropriateness |-> 10000, total |-> 24000]
    /\ fbk.texts[1] = <<Line("analysis_header", fbk.question_number),
                        Line("excellent", 0), Line("remark_accuracy", 0)>>

\* ------------------------------------------------------------------------
\* Cleaning the generated text (feedback_service.py _clean_feedback).
\* A text is the sequence of its characters.
\* ------------------------------------------------------------------------

MaxLines == 3

Newline == "\n"
Whitespace == {" ", Newline}

\* the length above which _clean_feedback cuts
MaxFeedbackLength == 1000
Ellipsis == <<".", ".", ".">>

\* str.strip()
RECURSIVE lstrip(_)
lstrip(s) ==
    IF s = << >> THEN s
    ELSE IF s[1] \in Whitespace THEN lstrip(Tail(s)) ELSE s

RECURSIVE rstrip(_)
rstrip(s) ==
    IF s = << >> THEN s
    ELSE IF s[Len(s)] \in Whitespace THEN rstrip(SubSeq(s, 1, Len(s) - 1)) ELSE s

strip(s) == rstrip(lstrip(s))

\* str.split('\n')
RECURSIVE split(_)
split(s) ==
    LET nl == { i \in DOMAIN s : s[i] = Newline }
    IN  IF nl = {} THEN <<s>>
        ELSE LET i == CHOOSE j \in nl : \A k \in nl : j <= k
             IN  <<SubSeq(s, 1, i - 1)>> \o split(SubSeq(s, i + 1, Len(s)))

\* the loop over lines: each line stripped, kept when not empty and not
\* kept before
RECURSIVE unique_lines(_, _)
unique_lines(lines, kept) ==
    IF lines = << >> THEN kept
    ELSE LET line == strip(Head(lines))
         IN  unique_lines(Tail(lines),
                          IF line # << >> /\ \A k \in DOMAIN kept : kept[k] # line
                          THEN Append(kept, line) ELSE kept)

\* '\n'.join(lines)
RECURSIVE join(_)
join(lines) ==
    IF lines = << >> THEN << >>
    ELSE IF Len(lines) = 1 THEN lines[1]
    ELSE lines[1] \o <<Newline>> \o join(Tail(lines))

deduplicated(raw_feedback) == join(unique_lines(split(strip(raw_feedback)), << >>))

_clean_feedback(raw_feedback) ==
    LET cleaned_feedback == deduplicated(raw_feedback)
    IN  IF Len(cleaned_feedback) > MaxFeedbackLength
        THEN SubSeq(cleaned_feedback, 1, MaxFeedbackLength) \o Ellipsis
        ELSE cleaned_feedback

CleanFeedback ==
    /\ cf.status = "called"
    /\ cf' = [cf EXCEPT !.status = "returned", !.result = _clean_feedback(cf.raw_feedback)]
    /\ UNCHANGED <<regVars, stageVars, pipeVars, db, fbk>>

CleanNext == CleanFeedback

\* raw model outputs: up to MaxLines lines, short ones that repeat, with
\* blanks around them or ending in dots, and long ones around the limit
Fill(n) == [i \in 1..n |-> "x"]
RawLines ==
    { <<"a", "b">>, <<" ", "a", "b", " ">>, <<"a", "b", ".", ".", ".">>,
      <<"a", "b", "a", "b">>, << >>,
      Fill(991), Fill(MaxFeedbackLength), Fill(MaxFeedbackLength + 1) }
RawFeedbacks ==
    { join(ls) : ls \in UNION { [1..n -> RawLines] : n \in 1..MaxLines } }

CleanInit ==
    /\ RegInit
    /\ sc = Idle /\ gr = Idle /\ ifb = Idle /\ ofb = Idle
    /\ batch = Idle /\ multi = Idle /\ jobs = << >> /\ fl = FlaskStart
    /\ db = DbStart /\ fbk = Idle
    /\ cf \in { [status |-> "called", raw_feedback |-> raw, result |-> << >>] :
                  raw \in RawFeedbacks }

CleanSpec == CleanInit /\ [][CleanNext]_vars

\* no line of the text occurs twice
NoRepeatedLine(text) ==
    LET lines == split(text)
    IN  \A i, j \in DOMAIN lines : lines[i] = lines[j] => i = j

\* C28: the text _clean_feedback returns is the deduplicated text when that
\* has at most 1000 characters and otherwise its first 1000 characters
\* followed by the ellipsis; it has no leading or trailing whitespace and no
\* line more than once.
C28_CleanedTextBoundedStrippedNoRepeats ==
    cf.status = "returned"
    => LET d == deduplicated(cf.raw_feedback)
       IN  /\ cf.result = IF Len(d) > MaxFeedbackLength
                          THEN SubSeq(d, 1, MaxFeedbackLength) \o Ellipsis
                          ELSE d
           /\ Len(cf.result) <= MaxFeedbackLength + Len(Ellipsis)
           /\ cf.result = strip(cf.result)
           /\ NoRepeatedLine(cf.result)

\* ------------------------------------------------------------------------
\* Handles that outlive the registry (ml_models.py cleanup, is_loaded)
\* ------------------------------------------------------------------------

\* a predict through the handle can answer
CanAnswer(h) == \E o \in predict(h) : ~o.raised

\* C29: a handle a service obtained before cleanup stays usable after it:
\* is_loaded() on it does not raise, and when a predict through it could
\* answer before the cleanup, one can answer after it (loading the artifact
\* again).
C29_HeldHandleUsableAfterCleanup ==
    [][ lastOp'.op = "cleanup"
        => \A i \in held' :
             /\ ~is_loaded_raises(handles'[i])
             /\ CanAnswer(handles[i]) => CanAnswer(handles'[i]) ]_vars

\* ------------------------------------------------------------------------
\* Several exam sessions on one Flask app (app.py module globals)
\* ------------------------------------------------------------------------

\* C30: what /grading scores for a session was transcribed from that
\* session's own recordings only (or is a slot no recording filled): no
\* text of another session's upload is read for it.
C30_SessionsDoNotInterfere ==
    \A s \in Sessions :
        fl.graded[s] # << >>
        => \A q \in 1..NumQuestions : fl.graded[s][q].src \in {0, s}

====
